---- MODULE Spec2Model ----
(***************************************************************************)
(* ScopeView: capture acquisition and resilient streaming.                 *)
(*                                                                         *)
(*   Spec      the viewer   (microscope_viewer.py, main and its helpers)   *)
(*   SpecDump  the raw dump (microscope_raw_dump.py, main)                 *)
(*   SpecLost     the viewer once the device stops delivering frames       *)
(*   SpecReport   two acquisitions and what report_stream_state prints     *)
(*   SpecResolve  resolve_device (microscope_devices.py)                   *)
(*   SpecFormat   _format_matches and _choose_format (microscope_capture)  *)
(*   SpecGrabber  PyGrabberCapture.read against the frame callback         *)
(*                                                                         *)
(* The capture backends, the display and the device are the environment:   *)
(* whether an open succeeds, whether a read yields a frame and whether the *)
(* consumer asks to quit are chosen with \E.                               *)
(***************************************************************************)
EXTENDS Integers, Sequences, FiniteSets, TLC

VARIABLES
    cfg,                  \* args and platform, fixed for one run
    pc,                   \* position of main's control flow
    capture,              \* the local `capture` / `cap`
    openHandles,          \* capture handles opened and not yet released
    pending_frame,        \* the local `pending_frame`
    consecutive_failures, \* the local `consecutive_failures`
    reconnects,           \* the local `reconnects`
    active_backend_label, \* the local `active_backend_label`
    acq,                  \* frames of open_with_backends / acquire_capture / prime_capture
    display_ctx,          \* the display context: initialisations and teardowns
    exit_code,            \* what main returned, or Unhandled
    hist,                 \* observations about the run (never read by the program)
    device,               \* the mode the capture device is actually running in
    reported,             \* what report_stream_state printed, one entry per acquisition
    resolution,           \* what resolve_device returned or raised
    selected,             \* what _choose_format returned
    grab                  \* a PyGrabberCapture, its reader and the frames in flight

vars == <<cfg, pc, capture, openHandles, pending_frame, consecutive_failures,
          reconnects, active_backend_label, acq, display_ctx, exit_code, hist,
          device, reported, resolution, selected, grab>>

----------------------------------------------------------------------------
(* Bounds *)

MaxProbeFrames == 2
MaxEmpty == 2
MaxReconnects == 2
MaxFrames == 2

----------------------------------------------------------------------------
(* Values *)

None == "None"

\* backend_map["pygrabber"]: the backend with no pollable api id
NoApi == -1

backend_map(label) ==
    CASE label = "dshow" -> 700
      [] label = "msmf" -> 1400
      [] label = "v4l2" -> 200
      [] label = "any" -> 0
      [] label = "pygrabber" -> NoApi

backend_candidates(c) ==
    IF c.capture_backend = "auto"
    THEN IF c.platform = "win"
         THEN <<"dshow", "msmf", "any", "pygrabber">>
         ELSE <<"v4l2", "any">>
    ELSE <<c.capture_backend>>

build_fourcc_candidates(c) ==
    LET first == IF c.fourcc # None THEN <<c.fourcc>> ELSE <<>>
        second == IF c.fallback_fourcc # None
                     /\ \A i \in 1..Len(first) : first[i] # c.fallback_fourcc
                  THEN <<c.fallback_fourcc>> ELSE <<>>
    IN first \o second \o <<None>>

Max(a, b) == IF a >= b THEN a ELSE b

Sat(n, cap) == IF n < cap THEN n + 1 ELSE cap

\* main has not returned yet / main was left by an exception nobody caught
NotReturned == 0 - 1
Unhandled == 0 - 2

NoCapture == [ref |-> None, opened |-> FALSE, backend |-> None]

VideoCapture(label, isOpen) == [ref |-> "obj", opened |-> isOpen, backend |-> label]

\* capture.release(): an opened handle is closed, anything else is a no-op
ReleasedCount(cap, n) == IF cap.ref = "obj" /\ cap.opened THEN n - 1 ELSE n

Released(cap) == [cap EXCEPT !.opened = FALSE]

StartAcq(kind, plan) == [kind |-> kind, plan |-> plan, bi |-> 1, fi |-> 1,
                         probe_i |-> 0, idx |-> 0, exhausted |-> {}, good |-> None,
                         tried |-> <<>>]

\* one (backend, format candidate) combination is being attempted; the
\* push-style backend has no format candidates and counts as candidate 0
Attempt(a) ==
    [a EXCEPT !.tried = Append(@, <<a.plan[a.bi],
                                    IF a.plan[a.bi] = "pygrabber" THEN 0 ELSE a.fi>>)]

reconnect_candidates(c, label) ==
    LET base == backend_candidates(c)
        keep(l) == l # label
    IN IF label # None /\ backend_map(label) # NoApi
       THEN <<label>> \o SelectSeq(base, keep)
       ELSE base

NoHist == [attempts |-> 0, failRun |-> 0, stopCause |-> None,
           probeDeliveries |-> 0, firstDelivered |-> None,
           readBeforeDelivery |-> FALSE, reacquired |-> FALSE,
           primed |-> FALSE]

\* a fresh session: the probe frame of the new handle is outstanding
NewSession(h) == [h EXCEPT !.failRun = 0, !.probeDeliveries = 0,
                           !.firstDelivered = None, !.readBeforeDelivery = FALSE,
                           !.primed = TRUE]

\* history counters saturate one above the largest value the program compares with
AttemptsCap == MaxReconnects + 1
FailRunCap == MaxEmpty + 1

----------------------------------------------------------------------------
(* The viewer: microscope_viewer.py *)

CaptureBackends == {"auto", "dshow", "msmf", "v4l2", "pygrabber"}

\* normalize_fourcc has already mapped auto/default/none to None
Fourccs == {None, "MJPG"}
FallbackFourccs == {None, "MJPG", "YUYV"}

Platforms == {"win", "linux"}

\* resolve_device returns an index on Windows; elsewhere a path, or 0 when
\* nothing is enumerated.  device_name is known only on Windows.
PlatformDevices ==
    { d \in [platform : Platforms, device_is_int : BOOLEAN, has_device_name : BOOLEAN] :
        /\ d.platform = "win" => d.device_is_int
        /\ d.has_device_name => d.platform = "win" }

ViewerConfigs ==
    { [platform |-> d.platform, device_is_int |-> d.device_is_int,
       has_device_name |-> d.has_device_name, capture_backend |-> b,
       fourcc |-> f, fallback_fourcc |-> ff, probe_frames |-> p,
       max_empty |-> e, max_reconnects |-> r, auto_retry |-> a] :
        d \in PlatformDevices, b \in CaptureBackends, f \in Fourccs,
        ff \in FallbackFourccs, p \in 0..MaxProbeFrames, e \in 0..MaxEmpty,
        r \in 0..MaxReconnects, a \in BOOLEAN }

Init ==
    /\ cfg \in ViewerConfigs
    /\ pc = "open_with_backends"
    /\ capture = NoCapture
    /\ openHandles = 0
    /\ pending_frame = None
    /\ consecutive_failures = 0
    /\ reconnects = 0
    /\ active_backend_label = None
    /\ acq = StartAcq("initial", backend_candidates(cfg))
    /\ display_ctx = [inits |-> 0, shutdowns |-> 0]
    /\ exit_code = NotReturned
    /\ hist = NoHist
    /\ device = None
    /\ reported = <<>>
    /\ resolution = None
    /\ selected = None
    /\ grab = None

\* what capture.read() can give: a frame or a failure while the device
\* delivers, only failures once it has stopped delivering
ReadOutcomes == IF device = "lost" THEN {FALSE} ELSE BOOLEAN

\* open_with_backends: the next backend of the plan failed or was skipped
NextBackend(a, wasTried) ==
    [a EXCEPT !.bi = a.bi + 1, !.fi = 1, !.probe_i = 0,
              !.exhausted = IF wasTried THEN a.exhausted \cup {a.plan[a.bi]}
                            ELSE a.exhausted]

\* open_with_backends, one turn of its loop up to the call that opens a handle
OpenWithBackends ==
    /\ pc = "open_with_backends"
    /\ UNCHANGED <<cfg, device, reported, resolution, selected, grab, consecutive_failures, reconnects, display_ctx, exit_code, hist>>
    /\ IF acq.bi > Len(acq.plan)
       THEN /\ capture' = NoCapture
            /\ pending_frame' = None
            /\ active_backend_label' = None
            /\ pc' = "acquired"
            /\ UNCHANGED <<acq, openHandles>>
       ELSE LET label == acq.plan[acq.bi] IN
            IF label = "pygrabber"
            THEN IF ~cfg.device_is_int
                 THEN /\ acq' = NextBackend(acq, FALSE)
                      /\ UNCHANGED <<pc, capture, openHandles, pending_frame,
                                     active_backend_label>>
                 ELSE IF cfg.platform # "win"
                 THEN /\ acq' = NextBackend(Attempt(acq), TRUE)
                      /\ UNCHANGED <<pc, capture, openHandles, pending_frame,
                                     active_backend_label>>
                 ELSE \E constructed \in BOOLEAN :
                        IF constructed
                        THEN /\ capture' = VideoCapture(label, TRUE)
                             /\ openHandles' = openHandles + 1
                             /\ pc' = "pygrabber_read"
                             /\ acq' = Attempt(acq)
                             /\ UNCHANGED <<pending_frame, active_backend_label>>
                        ELSE /\ acq' = NextBackend(Attempt(acq), TRUE)
                             /\ UNCHANGED <<pc, capture, openHandles, pending_frame,
                                            active_backend_label>>
            ELSE IF backend_map(label) = NoApi
            THEN /\ acq' = NextBackend(acq, FALSE)
                 /\ UNCHANGED <<pc, capture, openHandles, pending_frame,
                                active_backend_label>>
            ELSE /\ pc' = "acquire_capture"
                 /\ acq' = [acq EXCEPT !.fi = 1, !.probe_i = 0]
                 /\ UNCHANGED <<capture, openHandles, pending_frame, active_backend_label>>

\* open_pygrabber_capture: the single validating pull on the new session
PygrabberValidate ==
    /\ pc = "pygrabber_read"
    /\ UNCHANGED <<cfg, device, reported, resolution, selected, grab, consecutive_failures, reconnects, display_ctx, exit_code, hist>>
    /\ \E ok \in ReadOutcomes :
         IF ok
         THEN /\ pending_frame' = "probe"
              /\ active_backend_label' = acq.plan[acq.bi]
              /\ pc' = "acquired"
              /\ acq' = [acq EXCEPT !.good = acq.plan[acq.bi]]
              /\ UNCHANGED <<capture, openHandles>>
         ELSE /\ openHandles' = ReleasedCount(capture, openHandles)
              /\ capture' = Released(capture)
              /\ acq' = NextBackend(acq, TRUE)
              /\ pc' = "open_with_backends"
              /\ UNCHANGED <<pending_frame, active_backend_label>>

\* acquire_capture: the next format candidate
NextFourcc(a) == [a EXCEPT !.fi = a.fi + 1, !.probe_i = 0]

\* acquire_capture: loop head and the open by device index
AcquireCapture ==
    /\ pc = "acquire_capture"
    /\ UNCHANGED <<cfg, device, reported, resolution, selected, grab, consecutive_failures, reconnects, display_ctx, exit_code, hist,
                   pending_frame, active_backend_label>>
    /\ IF acq.fi > Len(build_fourcc_candidates(cfg))
       THEN /\ acq' = NextBackend(acq, TRUE)
            /\ pc' = "open_with_backends"
            /\ UNCHANGED <<capture, openHandles>>
       ELSE \E isOpen \in BOOLEAN :
              /\ capture' = VideoCapture(acq.plan[acq.bi], isOpen)
              /\ openHandles' = IF isOpen THEN openHandles + 1 ELSE openHandles
              /\ IF ~isOpen /\ cfg.has_device_name
                 THEN pc' = "retry_by_name" /\ acq' = Attempt(acq)
                 ELSE IF ~isOpen
                 THEN pc' = "acquire_capture" /\ acq' = NextFourcc(Attempt(acq))
                 ELSE pc' = "prime_capture" /\ acq' = [Attempt(acq) EXCEPT !.probe_i = 0]

\* acquire_capture: release the unopened handle and open "video=<name>"
RetryByName ==
    /\ pc = "retry_by_name"
    /\ UNCHANGED <<cfg, device, reported, resolution, selected, grab, consecutive_failures, reconnects, display_ctx, exit_code, hist,
                   pending_frame, active_backend_label>>
    /\ \E isOpen \in BOOLEAN :
         /\ capture' = VideoCapture(acq.plan[acq.bi], isOpen)
         /\ openHandles' = IF isOpen THEN ReleasedCount(capture, openHandles) + 1
                           ELSE ReleasedCount(capture, openHandles)
         /\ IF ~isOpen
            THEN pc' = "acquire_capture" /\ acq' = NextFourcc(acq)
            ELSE pc' = "prime_capture" /\ acq' = [acq EXCEPT !.probe_i = 0]

\* prime_capture reading once more than probe_frames allows
PrimeCapture_ExtraRead ==
    /\ pc = "prime_capture"
    /\ acq.probe_i <= Max(0, cfg.probe_frames)
    /\ UNCHANGED <<cfg, device, reported, resolution, selected, grab, consecutive_failures, reconnects, display_ctx, exit_code, hist,
                   capture, openHandles>>
    /\ \E ok \in ReadOutcomes :
         IF ok
         THEN /\ pending_frame' = "probe"
              /\ active_backend_label' = acq.plan[acq.bi]
              /\ pc' = "acquired"
              /\ acq' = [acq EXCEPT !.good = acq.plan[acq.bi]]
         ELSE /\ acq' = [acq EXCEPT !.probe_i = acq.probe_i + 1]
              /\ UNCHANGED <<pc, pending_frame, active_backend_label>>

\* prime_capture: one probe read; a good read returns through acquire_capture
\* (report_stream_state) and open_with_backends to the caller
PrimeCapture ==
    /\ pc = "prime_capture"
    /\ acq.probe_i < Max(0, cfg.probe_frames)
    /\ UNCHANGED <<cfg, device, reported, resolution, selected, grab, consecutive_failures, reconnects, display_ctx, exit_code, hist,
                   capture, openHandles>>
    /\ \E ok \in ReadOutcomes :
         IF ok
         THEN /\ pending_frame' = "probe"
              /\ active_backend_label' = acq.plan[acq.bi]
              /\ pc' = "acquired"
              /\ acq' = [acq EXCEPT !.good = acq.plan[acq.bi]]
         ELSE /\ acq' = [acq EXCEPT !.probe_i = acq.probe_i + 1]
              /\ UNCHANGED <<pc, pending_frame, active_backend_label>>

\* ProbeExhausted forgetting capture.release() before `continue`
ProbeExhausted_NoRelease ==
    /\ pc = "prime_capture"
    /\ acq.probe_i >= Max(0, cfg.probe_frames)
    /\ UNCHANGED <<cfg, device, reported, resolution, selected, grab, consecutive_failures, reconnects, display_ctx, exit_code, hist,
                   pending_frame, active_backend_label, capture, openHandles>>
    /\ acq' = NextFourcc(acq)
    /\ pc' = "acquire_capture"

\* ProbeExhausted returning the handle although no probe read was good
ProbeExhausted_ReturnsHandle ==
    /\ pc = "prime_capture"
    /\ acq.probe_i >= Max(0, cfg.probe_frames)
    /\ UNCHANGED <<cfg, device, reported, resolution, selected, grab, consecutive_failures, reconnects, display_ctx, exit_code, hist,
                   capture, openHandles, acq>>
    /\ pending_frame' = "probe"
    /\ active_backend_label' = acq.plan[acq.bi]
    /\ pc' = "acquired"

\* ProbeExhausted surfacing the one failed candidate as the failure of the
\* whole acquisition
ProbeExhausted_Fails ==
    /\ pc = "prime_capture"
    /\ acq.probe_i >= Max(0, cfg.probe_frames)
    /\ UNCHANGED <<cfg, device, reported, resolution, selected, grab, consecutive_failures,
                   reconnects, display_ctx, exit_code, hist, acq>>
    /\ openHandles' = ReleasedCount(capture, openHandles)
    /\ capture' = NoCapture
    /\ pending_frame' = None
    /\ active_backend_label' = None
    /\ pc' = "acquired"

\* prime_capture returned (False, None): release and try the next format
ProbeExhausted ==
    /\ pc = "prime_capture"
    /\ acq.probe_i >= Max(0, cfg.probe_frames)
    /\ UNCHANGED <<cfg, device, reported, resolution, selected, grab, consecutive_failures, reconnects, display_ctx, exit_code, hist,
                   pending_frame, active_backend_label>>
    /\ openHandles' = ReleasedCount(capture, openHandles)
    /\ capture' = Released(capture)
    /\ acq' = NextFourcc(acq)
    /\ pc' = "acquire_capture"

\* main: the initial open_with_backends returned
InitialAcquired ==
    /\ pc = "acquired"
    /\ acq.kind = "initial"
    /\ UNCHANGED <<cfg, device, reported, resolution, selected, grab, capture, openHandles, pending_frame, active_backend_label, acq>>
    /\ IF capture.ref = None
       THEN /\ exit_code' = 1
            /\ pc' = "exit"
            /\ UNCHANGED <<consecutive_failures, reconnects, display_ctx, hist>>
       ELSE /\ display_ctx' = [display_ctx EXCEPT !.inits = Sat(display_ctx.inits, 2)]
            /\ consecutive_failures' = 0
            /\ reconnects' = 0
            /\ hist' = NewSession(hist)
            /\ pc' = "loop"
            /\ UNCHANGED exit_code

\* RetryImmediately comparing with <= : one failed read too many
RetryImmediately_OffByOne(failures, c) == failures <= c.max_empty

\* main, line 475: the failure run has not reached max_empty yet
RetryImmediately(failures, c) == failures < c.max_empty

\* NoReconnect looking at the counter only, not at --no-auto-retry
NoReconnect_IgnoresAutoRetry(c, count) == count >= c.max_reconnects

\* NoReconnect comparing with > : one reconnect more than max_reconnects
NoReconnect_OffByOne(c, count) == ~c.auto_retry \/ count > c.max_reconnects

\* main, line 479: no reconnect is permitted
NoReconnect(c, count) == ~c.auto_retry \/ count >= c.max_reconnects

\* StreamingLoop forgetting to reset reconnects when a frame arrives
StreamingLoop_KeepsReconnects ==
    /\ pc = "loop"
    /\ UNCHANGED <<cfg, device, reported, resolution, selected, grab, capture, openHandles, active_backend_label, acq, display_ctx,
                   exit_code>>
    /\ pending_frame' = None
    /\ \E readOk \in (IF pending_frame # None THEN {TRUE} ELSE ReadOutcomes),
          keepGoing \in BOOLEAN :
         LET fromPending == pending_frame # None
             ok == fromPending \/ readOk
             frame == IF fromPending THEN pending_frame ELSE "stream"
             h1 == IF fromPending THEN hist
                   ELSE [hist EXCEPT !.readBeforeDelivery =
                                        @ \/ hist.firstDelivered = None]
         IN /\ fromPending => readOk
            /\ ~ok => keepGoing
            /\ IF ~ok
               THEN /\ consecutive_failures' = consecutive_failures + 1
                    /\ UNCHANGED reconnects
                    /\ IF RetryImmediately(consecutive_failures', cfg)
                       THEN /\ pc' = "loop"
                            /\ hist' = [h1 EXCEPT !.failRun = Sat(@, FailRunCap)]
                       ELSE IF NoReconnect(cfg, reconnects)
                       THEN /\ pc' = "finally"
                            /\ hist' = [h1 EXCEPT !.failRun = Sat(@, FailRunCap),
                                                  !.stopCause = "signal_lost"]
                       ELSE /\ pc' = "recover"
                            /\ hist' = [h1 EXCEPT !.failRun = Sat(@, FailRunCap)]
               ELSE /\ consecutive_failures' = 0
                    /\ UNCHANGED reconnects
                    /\ pc' = IF keepGoing THEN "loop" ELSE "finally"
                    /\ hist' = [h1 EXCEPT
                                  !.failRun = 0,
                                  !.firstDelivered = IF @ = None THEN frame ELSE @,
                                  !.probeDeliveries =
                                      IF frame = "probe" THEN Sat(@, 2) ELSE @,
                                  !.stopCause = IF keepGoing THEN @ ELSE "quit"]

\* main: one turn of the streaming loop, up to `continue`, `break` or the
\* decision to reconnect
StreamingLoop ==
    /\ pc = "loop"
    /\ UNCHANGED <<cfg, device, reported, resolution, selected, grab, capture, openHandles, active_backend_label, acq, display_ctx,
                   exit_code>>
    /\ pending_frame' = None
    /\ \E readOk \in (IF pending_frame # None THEN {TRUE} ELSE ReadOutcomes),
          keepGoing \in BOOLEAN :
         LET fromPending == pending_frame # None
             ok == fromPending \/ readOk
             frame == IF fromPending THEN pending_frame ELSE "stream"
             h1 == IF fromPending THEN hist
                   ELSE [hist EXCEPT !.readBeforeDelivery =
                                        @ \/ hist.firstDelivered = None]
         IN /\ fromPending => readOk
            /\ ~ok => keepGoing
            /\ IF ~ok
               THEN /\ consecutive_failures' = consecutive_failures + 1
                    /\ UNCHANGED reconnects
                    /\ IF RetryImmediately(consecutive_failures', cfg)
                       THEN /\ pc' = "loop"
                            /\ hist' = [h1 EXCEPT !.failRun = Sat(@, FailRunCap)]
                       ELSE IF NoReconnect(cfg, reconnects)
                       THEN /\ pc' = "finally"
                            /\ hist' = [h1 EXCEPT !.failRun = Sat(@, FailRunCap),
                                                  !.stopCause = "signal_lost"]
                       ELSE /\ pc' = "recover"
                            /\ hist' = [h1 EXCEPT !.failRun = Sat(@, FailRunCap)]
               ELSE /\ consecutive_failures' = 0
                    /\ reconnects' = 0
                    /\ pc' = IF keepGoing THEN "loop" ELSE "finally"
                    /\ hist' = [h1 EXCEPT
                                  !.failRun = 0,
                                  !.firstDelivered = IF @ = None THEN frame ELSE @,
                                  !.probeDeliveries =
                                      IF frame = "probe" THEN Sat(@, 2) ELSE @,
                                  !.stopCause = IF keepGoing THEN @ ELSE "quit"]

\* main: release, wait retry_delay, replan and call open_with_backends again
Recover ==
    /\ pc = "recover"
    /\ UNCHANGED <<cfg, device, reported, resolution, selected, grab, pending_frame, consecutive_failures, reconnects,
                   active_backend_label, display_ctx, exit_code>>
    /\ openHandles' = ReleasedCount(capture, openHandles)
    /\ capture' = Released(capture)
    /\ acq' = StartAcq("reconnect", reconnect_candidates(cfg, active_backend_label))
    /\ hist' = [hist EXCEPT !.attempts = Sat(@, AttemptsCap)]
    /\ pc' = "open_with_backends"

\* ReconnectAcquired going back to another reconnect when re-acquisition failed
ReconnectAcquired_RetriesForever ==
    /\ pc = "acquired"
    /\ acq.kind = "reconnect"
    /\ UNCHANGED <<cfg, device, reported, resolution, selected, grab, capture, openHandles, pending_frame, active_backend_label, acq,
                   display_ctx, exit_code>>
    /\ IF capture.ref = None
       THEN /\ pc' = "recover"
            /\ UNCHANGED <<hist, consecutive_failures, reconnects>>
       ELSE /\ consecutive_failures' = 0
            /\ reconnects' = reconnects + 1
            /\ hist' = [NewSession(hist) EXCEPT !.reacquired = TRUE]
            /\ pc' = "loop"

\* main: the reconnect's open_with_backends returned
ReconnectAcquired ==
    /\ pc = "acquired"
    /\ acq.kind = "reconnect"
    /\ UNCHANGED <<cfg, device, reported, resolution, selected, grab, capture, openHandles, pending_frame, active_backend_label, acq,
                   display_ctx, exit_code>>
    /\ IF capture.ref = None
       THEN /\ pc' = "finally"
            /\ hist' = [hist EXCEPT !.stopCause = "unable_to_recover"]
            /\ UNCHANGED <<consecutive_failures, reconnects>>
       ELSE /\ consecutive_failures' = 0
            /\ reconnects' = reconnects + 1
            /\ hist' = [NewSession(hist) EXCEPT !.reacquired = TRUE]
            /\ pc' = "loop"

\* Finally tearing the display down but never releasing the handle
Finally_NoRelease ==
    /\ pc = "finally"
    /\ UNCHANGED <<cfg, device, reported, resolution, selected, grab, pending_frame, consecutive_failures, reconnects,
                   active_backend_label, acq, hist, capture, openHandles>>
    /\ pc' = "exit"
    /\ display_ctx' = [display_ctx EXCEPT !.shutdowns = Sat(display_ctx.shutdowns, 2)]
    /\ exit_code' = 0

\* main: the finally block, capture.release() then shutdown_display(); calling
\* release on None raises AttributeError and the block is abandoned
Finally ==
    /\ pc = "finally"
    /\ UNCHANGED <<cfg, device, reported, resolution, selected, grab, pending_frame, consecutive_failures, reconnects,
                   active_backend_label, acq, hist>>
    /\ pc' = "exit"
    /\ IF capture.ref = None
       THEN /\ exit_code' = Unhandled
            /\ UNCHANGED <<capture, openHandles, display_ctx>>
       ELSE /\ openHandles' = ReleasedCount(capture, openHandles)
            /\ capture' = Released(capture)
            /\ display_ctx' = [display_ctx EXCEPT !.shutdowns = Sat(display_ctx.shutdowns, 2)]
            /\ exit_code' = 0

Next ==
    \/ OpenWithBackends
    \/ PygrabberValidate
    \/ AcquireCapture
    \/ RetryByName
    \/ PrimeCapture
    \/ ProbeExhausted
    \/ InitialAcquired
    \/ StreamingLoop
    \/ Recover
    \/ ReconnectAcquired
    \/ Finally

Spec == Init /\ [][Next]_vars

----------------------------------------------------------------------------
(* Session states of the viewer *)

Streaming == pc = "loop"
Recovering == pc = "recover" \/ (acq.kind = "reconnect" /\ pc \in
                  {"open_with_backends", "pygrabber_read", "acquire_capture",
                   "retry_by_name", "prime_capture", "acquired"})
Stopped == pc = "exit" /\ hist.stopCause # None

----------------------------------------------------------------------------
(* Claims about the viewer *)

\* C1: with auto-retry enabled, the number of reconnect attempts (release,
\* wait, re-acquire) made in one session never exceeds max_reconnects.
C1_ReconnectAttemptsBounded ==
    cfg.auto_retry => hist.attempts <= cfg.max_reconnects

\* C2: with auto-retry enabled and every re-acquisition failing, the session
\* is Stopped after exactly max_reconnects reconnect attempts, with no handle
\* open.
C2_StopsAfterMaxReconnects ==
    (Stopped /\ cfg.auto_retry /\ ~hist.reacquired
        /\ hist.stopCause \in {"signal_lost", "unable_to_recover"})
    => (hist.attempts = cfg.max_reconnects /\ openHandles = 0)

\* C2 as amended: with auto-retry enabled and every re-acquisition failing,
\* the session is Stopped after exactly one reconnect attempt when
\* max_reconnects >= 1 (after none when max_reconnects <= 0), with no handle
\* open.
C2_StopsAfterFirstFailedAttempt ==
    (Stopped /\ cfg.auto_retry /\ ~hist.reacquired
        /\ hist.stopCause \in {"signal_lost", "unable_to_recover"})
    => /\ hist.attempts = (IF cfg.max_reconnects >= 1 THEN 1 ELSE 0)
       /\ openHandles = 0

C2_Witness ==
    /\ Stopped /\ cfg.auto_retry /\ ~hist.reacquired
    /\ hist.stopCause = "unable_to_recover"
    /\ cfg.max_reconnects = 2 /\ hist.attempts = 1

\* C3: for max_empty >= 1 the session leaves Streaming for Recovering on the
\* max_empty-th consecutive failed read and on no earlier one (while it stays
\* in Streaming the failure run is shorter than max_empty), and a successful
\* re-acquisition returns to Streaming with consecutive_failures = 0.
C3_RecoverAtThreshold ==
    [][ /\ (pc = "loop" /\ pc' = "recover" /\ cfg.max_empty >= 1)
             => (hist'.failRun = cfg.max_empty /\ cfg.auto_retry
                 /\ reconnects < cfg.max_reconnects)
        /\ (pc = "loop" /\ pc' = "loop" /\ cfg.max_empty >= 1)
             => hist'.failRun < cfg.max_empty
        /\ (pc = "acquired" /\ pc' = "loop" /\ acq.kind = "reconnect")
             => consecutive_failures' = 0 ]_vars

C3_Witness ==
    /\ pc = "loop" /\ hist.reacquired /\ consecutive_failures = 0
    /\ cfg.max_empty = MaxEmpty /\ pending_frame = "probe"

\* C4: at most one capture handle is open in every state, and a handle is
\* opened only when none is open (a reconnect releases the old handle first).
C4_AtMostOneHandle ==
    [][ openHandles' <= 1 /\ (openHandles' > openHandles => openHandles = 0) ]_vars

C4_Witness ==
    /\ acq.kind = "reconnect" /\ pc = "prime_capture" /\ openHandles = 1
    /\ acq.fi > 1

\* C5: when the session is Stopped (quit, signal lost, failed re-acquisition)
\* no capture handle is open, and nothing happens after Stopped.
C5_StoppedReleasedAndTerminal ==
    [][ (Stopped' => openHandles' = 0) /\ ~Stopped ]_vars

C5_Witness ==
    Stopped /\ hist.stopCause = "quit" /\ hist.reacquired

\* C7: once the display context is initialised it has been torn down exactly
\* once when main has left the streaming loop, whatever the cause.
C7_DisplayTornDownOnce ==
    (pc = "exit" /\ display_ctx.inits >= 1) => display_ctx.shutdowns = 1

\* C8: a successful acquisition returns the handle of the first backend of the
\* plan that gave a good probe frame; every backend before it was exhausted (or
\* skipped) and holds no handle; the initial acquisition leaves reconnects 0.
C8_FirstWorkingBackend ==
    (pc = "acquired" /\ capture.ref # None) =>
        /\ capture.opened /\ openHandles = 1
        /\ capture.backend = acq.plan[acq.bi]
        /\ active_backend_label = capture.backend
        /\ acq.good = capture.backend
        /\ capture.backend \notin acq.exhausted
        /\ \A j \in 1..(acq.bi - 1) :
              \/ acq.plan[j] \in acq.exhausted
              \/ (acq.plan[j] = "pygrabber" /\ ~cfg.device_is_int)
        /\ (acq.kind = "initial" => reconnects = 0)

C8_Witness ==
    /\ pc = "acquired" /\ acq.kind = "initial" /\ capture.ref # None
    /\ acq.bi = 2 /\ acq.probe_i = 1 /\ acq.plan[1] \in acq.exhausted

\* every combination open_with_backends has to attempt for a plan, in order
RECURSIVE AllCombinations(_, _)
AllCombinations(plan, c) ==
    IF plan = <<>> THEN <<>>
    ELSE LET label == Head(plan)
             mine == IF label = "pygrabber"
                     THEN IF c.device_is_int THEN << <<label, 0>> >> ELSE <<>>
                     ELSE [i \in 1..Len(build_fourcc_candidates(c)) |-> <<label, i>>]
         IN mine \o AllCombinations(Tail(plan), c)

\* C11: an acquisition fails exactly when no candidate gave a good probe frame.
\* When it fails, every (backend, format) combination of the plan was
\* attempted once, in order, and no handle is open; main then returns 1
\* without initialising the display or entering the streaming loop.
C11_FailedIffAllExhausted ==
    /\ pc = "acquired" => (capture.ref = None <=> acq.good = None)
    /\ (pc = "acquired" /\ capture.ref = None) =>
          /\ openHandles = 0
          /\ acq.tried = AllCombinations(acq.plan, cfg)
    /\ exit_code = 1 =>
          /\ pc = "exit" /\ acq.kind = "initial" /\ capture.ref = None
          /\ display_ctx.inits = 0 /\ hist.stopCause = None
    /\ (pc = "exit" /\ acq.kind = "initial" /\ capture.ref = None) => exit_code = 1

C11_Witness ==
    /\ exit_code = 1 /\ Len(acq.plan) = 4 /\ Len(acq.tried) = 10

\* C12: the plan of a reconnect starts with the backend that was last
\* successful, whichever it is, followed by the other backends of the base
\* plan in their order, without a duplicate.
C12_ReconnectPlanPrefersLastGood ==
    [][ (pc = "recover" /\ pc' = "open_with_backends") =>
          LET keep(l) == l # active_backend_label
          IN acq'.plan = <<active_backend_label>>
                            \o SelectSeq(backend_candidates(cfg), keep) ]_vars

\* C21: the probe of an opened pollable handle reads at most probe_frames
\* times (never when probe_frames is 0), stops at the first good read and
\* hands that frame back with the handle still open; when the budget runs
\* out the handle is released and the next format candidate of the same
\* backend comes next, the backend changing only after its last candidate.
C21_ProbeBudgetAndOrder ==
    [][ /\ pc = "prime_capture" =>
             /\ capture.opened /\ capture.backend = acq.plan[acq.bi]
             /\ acq.probe_i <= Max(0, cfg.probe_frames)
             /\ (acq'.probe_i = acq.probe_i + 1 \/ pc' = "acquired") =>
                   acq.probe_i < cfg.probe_frames
             /\ pc' = "acquired" =>
                   /\ pending_frame' = "probe"
                   /\ capture' = capture
                   /\ acq'.good = acq.plan[acq.bi]
             /\ pc' = "acquire_capture" =>
                   /\ acq.probe_i = Max(0, cfg.probe_frames)
                   /\ ~capture'.opened /\ openHandles' = 0
                   /\ acq'.bi = acq.bi /\ acq'.fi = acq.fi + 1
             /\ pc' \in {"prime_capture", "acquired", "acquire_capture"}
        /\ (pc = "acquire_capture" /\ acq'.bi # acq.bi) =>
             acq.fi > Len(build_fourcc_candidates(cfg)) ]_vars

\* the second probe read of the second format candidate was the good one
C21_Witness ==
    /\ pc = "acquired" /\ pending_frame = "probe"
    /\ cfg.probe_frames = 2 /\ acq.probe_i = 1
    /\ acq.fi = 2 /\ ~cfg.has_device_name
    /\ capture.opened /\ acq.good = capture.backend

\* C22: in Streaming a turn that yields a frame sets consecutive_failures
\* and reconnects to 0; a failed read that leaves consecutive_failures below
\* max_empty adds exactly 1 to it and changes neither reconnects nor the
\* handle nor the last-good backend, and the session stays in Streaming.
C22_StreamingReadEffects ==
    [][ pc = "loop" =>
          /\ hist'.failRun = 0 =>
                consecutive_failures' = 0 /\ reconnects' = 0
          /\ (hist'.failRun # 0 /\ consecutive_failures + 1 < cfg.max_empty) =>
                /\ consecutive_failures' = consecutive_failures + 1
                /\ reconnects' = reconnects
                /\ capture' = capture /\ openHandles' = openHandles
                /\ active_backend_label' = active_backend_label
                /\ pc' = "loop" ]_vars

\* after a reconnect: the probe frame was delivered with reconnects at 1 and
\* reset it, then one read failed below the threshold
C22_Witness ==
    /\ pc = "loop" /\ hist.reacquired
    /\ cfg.max_empty = 2 /\ consecutive_failures = 1 /\ hist.failRun = 1
    /\ reconnects = 0 /\ hist.firstDelivered = "probe"
    /\ capture.opened

\* C23: when a failed read brings consecutive_failures to max_empty, the
\* session goes to Recovering only with auto-retry enabled and reconnects
\* below max_reconnects; otherwise it stops with "signal lost" and no
\* re-acquisition follows; without auto-retry none is ever attempted.
C23_RecoveringOnlyWhenPermitted ==
    [][ /\ (pc = "loop" /\ pc' = "recover") =>
             /\ cfg.auto_retry /\ reconnects < cfg.max_reconnects
             /\ consecutive_failures' >= cfg.max_empty
        /\ (/\ pc = "loop" /\ hist'.failRun # 0
            /\ consecutive_failures' >= cfg.max_empty
            /\ (~cfg.auto_retry \/ reconnects >= cfg.max_reconnects)) =>
             /\ pc' = "finally" /\ hist'.stopCause = "signal_lost"
             /\ acq' = acq /\ capture' = capture
             /\ hist'.attempts = hist.attempts
        /\ hist.stopCause = "signal_lost" =>
             /\ pc' = "exit" /\ acq' = acq /\ hist' = hist
        /\ ~cfg.auto_retry =>
             /\ hist'.attempts = 0 /\ acq'.kind = "initial" /\ pc' # "recover" ]_vars

C23_Witness ==
    /\ Stopped /\ hist.stopCause = "signal_lost"
    /\ ~cfg.auto_retry /\ cfg.max_reconnects = 2 /\ cfg.max_empty = 2
    /\ hist.attempts = 0 /\ openHandles = 0

----------------------------------------------------------------------------
(* The viewer when the device stops delivering: from some point on every
   read on every handle fails, while opens may still succeed *)

\* the pixel-format flags do not bear on reads: the preferred format with the
\* fallback disabled leaves two format candidates per backend
LostConfigs == {c \in ViewerConfigs : c.fourcc = "MJPG" /\ c.fallback_fourcc = None}

InitLost ==
    /\ cfg \in LostConfigs
    /\ pc = "open_with_backends"
    /\ capture = NoCapture
    /\ openHandles = 0
    /\ pending_frame = None
    /\ consecutive_failures = 0
    /\ reconnects = 0
    /\ active_backend_label = None
    /\ acq = StartAcq("initial", backend_candidates(cfg))
    /\ display_ctx = [inits |-> 0, shutdowns |-> 0]
    /\ exit_code = NotReturned
    /\ hist = NoHist
    /\ device = "live"
    /\ reported = <<>>
    /\ resolution = None
    /\ selected = None
    /\ grab = None

\* the camera stops delivering while the session is streaming or recovering
SignalLost ==
    /\ device = "live"
    /\ Streaming \/ Recovering
    /\ device' = "lost"
    /\ UNCHANGED <<cfg, pc, capture, openHandles, pending_frame, consecutive_failures,
                   reconnects, active_backend_label, acq, display_ctx, exit_code, hist,
                   reported, resolution, selected, grab>>

NextLost ==
    \/ SignalLost
    \/ Next

\* main is one thread that keeps running: a step it can take is taken
SpecLost == InitLost /\ [][NextLost]_vars /\ WF_vars(Next)

\* C27: once every read fails, the streaming loop reaches Stopped, with or
\* without auto-retry; it does not go round Streaming and Recovering forever.
C27_LostSignalLeadsToStopped == (device = "lost") ~> Stopped

\* the signal was lost, one reconnect was tried and failed, the session stopped
C27_Witness ==
    /\ device = "lost" /\ Stopped
    /\ cfg.auto_retry /\ hist.stopCause = "unable_to_recover"
    /\ hist.attempts > 0

----------------------------------------------------------------------------
(* The raw dump: microscope_raw_dump.py *)

\* --fourcc tokens: unforced, a valid code, and one that is not 4 characters
DumpFourccs == {"", "auto", "AUTO", "YUYV", "MJPEG"}

lower(token) ==
    CASE token \in {"AUTO", "Auto"} -> "auto"
      [] token \in {"DEFAULT", "Default"} -> "default"
      [] token \in {"NONE", "nOnE"} -> "none"
      [] token = "YUYV" -> "yuyv"
      [] token = "YUY2" -> "yuy2"
      [] token = "MJPG" -> "mjpg"
      [] token = "MJPEG" -> "mjpeg"
      [] OTHER -> token

upper(token) ==
    CASE token = "auto" -> "AUTO"
      [] token = "yuyv" -> "YUYV"
      [] token = "yuy2" -> "YUY2"
      [] token = "mjpg" -> "MJPG"
      [] token = "mjpeg" -> "MJPEG"
      [] OTHER -> token

\* len(args.fourcc.strip().upper())
FourccLength(token) ==
    CASE token = "" -> 0
      [] token \in {"auto", "AUTO", "YUYV"} -> 4
      [] token = "MJPEG" -> 5

\* configure_capture: "ValueError", "AttributeError" (PyGrabberCapture has no
\* set method) or "ok"
configure_capture(cap, c) ==
    IF c.fourcc # "" /\ lower(c.fourcc) # "auto" /\ FourccLength(c.fourcc) # 4
    THEN "ValueError"
    ELSE IF cap.backend = "pygrabber" THEN "AttributeError"
    ELSE "ok"

DumpConfigs ==
    { [platform |-> d.platform, device_is_int |-> d.device_is_int,
       has_device_name |-> d.has_device_name, capture_backend |-> b,
       fourcc |-> f, frames |-> n] :
        d \in PlatformDevices, b \in CaptureBackends, f \in DumpFourccs,
        n \in 0..MaxFrames }

InitDump ==
    /\ cfg \in DumpConfigs
    /\ pc = "backend_loop"
    /\ capture = NoCapture
    /\ openHandles = 0
    /\ pending_frame = None
    /\ consecutive_failures = 0
    /\ reconnects = 0
    /\ active_backend_label = None
    /\ acq = StartAcq("dump", backend_candidates(cfg))
    /\ display_ctx = [inits |-> 0, shutdowns |-> 0]
    /\ exit_code = NotReturned
    /\ hist = NoHist
    /\ device = None
    /\ reported = <<>>
    /\ resolution = None
    /\ selected = None
    /\ grab = None

viewerOnly == <<consecutive_failures, reconnects, active_backend_label, display_ctx>>

\* main: one turn of the backend loop up to the call that opens a handle
DumpBackendLoop ==
    /\ pc = "backend_loop"
    /\ UNCHANGED <<cfg, device, reported, resolution, selected, grab, viewerOnly, exit_code, hist, pending_frame>>
    /\ IF acq.bi > Len(acq.plan)
       THEN pc' = "opened_check" /\ UNCHANGED <<capture, openHandles, acq>>
       ELSE LET label == acq.plan[acq.bi] IN
            IF label = "pygrabber"
            THEN IF ~cfg.device_is_int
                 THEN /\ acq' = NextBackend(acq, FALSE)
                      /\ UNCHANGED <<pc, capture, openHandles>>
                 ELSE IF cfg.platform # "win"
                 THEN /\ acq' = NextBackend(acq, TRUE)
                      /\ capture' = NoCapture
                      /\ UNCHANGED <<pc, openHandles>>
                 ELSE \E constructed \in BOOLEAN :
                        IF constructed
                        THEN /\ capture' = VideoCapture(label, TRUE)
                             /\ openHandles' = openHandles + 1
                             /\ pc' = "dump_pygrabber_read"
                             /\ UNCHANGED acq
                        ELSE /\ acq' = NextBackend(acq, TRUE)
                             /\ capture' = NoCapture
                             /\ UNCHANGED <<pc, openHandles>>
            ELSE IF backend_map(label) = NoApi
            THEN /\ acq' = NextBackend(acq, FALSE)
                 /\ UNCHANGED <<pc, capture, openHandles>>
            ELSE \E isOpen \in BOOLEAN :
                   /\ capture' = VideoCapture(label, isOpen)
                   /\ openHandles' = IF isOpen THEN openHandles + 1 ELSE openHandles
                   /\ IF ~isOpen /\ cfg.has_device_name
                      THEN pc' = "dump_retry_by_name" /\ UNCHANGED acq
                      ELSE IF isOpen
                      THEN pc' = "opened_check" /\ UNCHANGED acq
                      ELSE pc' = "backend_loop" /\ acq' = NextBackend(acq, TRUE)

\* main: release the unopened handle and open "video=<name>"
DumpRetryByName ==
    /\ pc = "dump_retry_by_name"
    /\ UNCHANGED <<cfg, device, reported, resolution, selected, grab, viewerOnly, exit_code, hist, pending_frame>>
    /\ \E isOpen \in BOOLEAN :
         /\ capture' = VideoCapture(acq.plan[acq.bi], isOpen)
         /\ openHandles' = IF isOpen THEN ReleasedCount(capture, openHandles) + 1
                           ELSE ReleasedCount(capture, openHandles)
         /\ IF isOpen
            THEN pc' = "opened_check" /\ UNCHANGED acq
            ELSE pc' = "backend_loop" /\ acq' = NextBackend(acq, TRUE)

\* open_pygrabber_capture called from the dump: the validating pull
DumpPygrabberValidate ==
    /\ pc = "dump_pygrabber_read"
    /\ UNCHANGED <<cfg, device, reported, resolution, selected, grab, viewerOnly, exit_code>>
    /\ \E ok \in BOOLEAN :
         IF ok
         THEN /\ pending_frame' = "probe"
              /\ hist' = NewSession(hist)
              /\ acq' = [acq EXCEPT !.good = acq.plan[acq.bi]]
              /\ pc' = "opened_check"
              /\ UNCHANGED <<capture, openHandles>>
         ELSE /\ openHandles' = ReleasedCount(capture, openHandles)
              /\ capture' = NoCapture
              /\ acq' = NextBackend(acq, TRUE)
              /\ pc' = "backend_loop"
              /\ UNCHANGED <<pending_frame, hist>>

\* main: the check after the backend loop, then configure_capture
DumpConfigure ==
    /\ pc = "opened_check"
    /\ UNCHANGED <<cfg, device, reported, resolution, selected, grab, viewerOnly, hist, pending_frame, capture, openHandles>>
    /\ IF capture.ref = None \/ ~capture.opened
       THEN exit_code' = 1 /\ pc' = "exit" /\ UNCHANGED acq
       ELSE LET outcome == configure_capture(capture, cfg) IN
            IF outcome = "ValueError"
            THEN exit_code' = 2 /\ pc' = "exit" /\ UNCHANGED acq
            ELSE IF outcome = "AttributeError"
            THEN exit_code' = Unhandled /\ pc' = "exit" /\ UNCHANGED acq
            ELSE /\ pc' = "dump_loop"
                 /\ acq' = [acq EXCEPT !.idx = 0]
                 /\ UNCHANGED exit_code

\* main: one turn of `for idx in range(args.frames)`
DumpFrame ==
    /\ pc = "dump_loop"
    /\ acq.idx < cfg.frames
    /\ UNCHANGED <<cfg, device, reported, resolution, selected, grab, viewerOnly, capture, openHandles>>
    /\ pending_frame' = None
    /\ \E readOk \in BOOLEAN :
         LET fromPending == pending_frame # None
             frame == IF fromPending THEN pending_frame ELSE "stream"
             h1 == IF fromPending THEN hist
                   ELSE [hist EXCEPT !.readBeforeDelivery =
                                        @ \/ (hist.primed /\ hist.firstDelivered = None)]
         IN /\ fromPending => readOk
            /\ IF fromPending \/ readOk
               THEN /\ hist' = [h1 EXCEPT
                                  !.firstDelivered = IF @ = None THEN frame ELSE @,
                                  !.probeDeliveries =
                                      IF frame = "probe" THEN Sat(@, 2) ELSE @]
                    /\ acq' = [acq EXCEPT !.idx = acq.idx + 1]
                    /\ UNCHANGED <<pc, exit_code>>
               ELSE /\ exit_code' = 3
                    /\ pc' = "exit"
                    /\ hist' = h1
                    /\ UNCHANGED acq

\* main: after the loop, read the negotiated mode, release, return 0
DumpFinish ==
    /\ pc = "dump_loop"
    /\ acq.idx >= cfg.frames
    /\ UNCHANGED <<cfg, device, reported, resolution, selected, grab, viewerOnly, hist, pending_frame, acq>>
    /\ openHandles' = ReleasedCount(capture, openHandles)
    /\ capture' = Released(capture)
    /\ exit_code' = 0
    /\ pc' = "exit"

NextDump ==
    \/ DumpBackendLoop
    \/ DumpRetryByName
    \/ DumpPygrabberValidate
    \/ DumpConfigure
    \/ DumpFrame
    \/ DumpFinish

SpecDump == InitDump /\ [][NextDump]_vars

----------------------------------------------------------------------------
(* Claims about the dump *)

\* C6: in dump mode a capture handle that was opened is released on every
\* exit path of the run (exit 0, exit 2 after open, exit 3).
C6_DumpReleasesOnEveryExit ==
    pc = "exit" => openHandles = 0

\* C9: after a successful acquisition the probe frame is the first frame
\* handed to the consumer, before any further read on the session, and it is
\* handed over exactly once (not dropped, not repeated).
C9_ProbeFrameDeliveredFirst ==
    hist.primed =>
        /\ hist.firstDelivered \in {None, "probe"}
        /\ ~hist.readBeforeDelivery
        /\ hist.probeDeliveries <= 1
        /\ (pc = "exit" => hist.probeDeliveries = 1)

\* C19: every dump run, whatever the backend, ends with exit code 0, 1, 2 or
\* 3: 1 with no handle open, 2 for an invalid pixel-encoding token, 3 when a
\* read failed before all frames were captured, 0 after all of them; none
\* ends with an error nobody handled.
C19_DumpExitCodes ==
    pc = "exit" =>
        /\ exit_code \in {0, 1, 2, 3}
        /\ exit_code = 1 => openHandles = 0
        /\ exit_code = 2 => cfg.fourcc = "MJPEG"
        /\ exit_code = 3 => acq.idx < cfg.frames
        /\ exit_code = 0 => acq.idx = cfg.frames

----------------------------------------------------------------------------
(* Format matching and the push-style session: microscope_capture.py *)

\* str.strip() on the encoding tokens
stripped(token) ==
    CASE token = " " -> ""
      [] token = " auto " -> "auto"
      [] token = " YUYV" -> "YUYV"
      [] OTHER -> token

\* (args.fourcc or "").strip()
fourcc_value(args) == IF args.fourcc = None THEN "" ELSE stripped(args.fourcc)

\* the sentinels that leave the pixel encoding unforced
Unforced(value) == value = "" \/ lower(value) \in {"auto", "default", "none"}

\* _format_matches without the test of the frame-rate range
format_matches_IgnoresFps(fmt, args) ==
    /\ ~(args.width # 0 /\ fmt.width # args.width)
    /\ ~(args.height # 0 /\ fmt.height # args.height)
    /\ ~Unforced(fourcc_value(args)) =>
          LET requested == upper(fourcc_value(args))
              allowed == {requested} \cup (IF requested = "YUYV" THEN {"YUY2"} ELSE {})
          IN fmt.media_type_str \in allowed

format_matches(fmt, args) ==
    /\ ~(args.width # 0 /\ fmt.width # args.width)
    /\ ~(args.height # 0 /\ fmt.height # args.height)
    /\ args.fps # 0 => (fmt.min_framerate <= args.fps /\ args.fps <= fmt.max_framerate)
    /\ ~Unforced(fourcc_value(args)) =>
          LET requested == upper(fourcc_value(args))
              allowed == {requested} \cup (IF requested = "YUYV" THEN {"YUY2"} ELSE {})
          IN fmt.media_type_str \in allowed

Min(a, b) == IF a <= b THEN a ELSE b

Abs(x) == IF x < 0 THEN 0 - x ELSE x

\* the sort key of _choose_format: distance from the requested fps to the range
FpsDistance(fmt, args) ==
    Abs(args.fps - Max(Min(args.fps, fmt.max_framerate), fmt.min_framerate))

\* the None that _choose_format returns in place of a descriptor
NoFormat == [index |-> 0 - 1, width |-> 0, height |-> 0, min_framerate |-> 0,
             max_framerate |-> 0, media_type_str |-> ""]

\* _choose_format without its early return for an unconstrained request
choose_format_NoEarlyReturn(formats, args) ==
    LET Test(f) == format_matches(f, args)
        matches == SelectSeq(formats, Test)
    IN IF matches = <<>> THEN NoFormat ELSE matches[1]

choose_format(formats, args) ==
    IF ~(args.width # 0 \/ args.height # 0 \/ args.fps # 0
         \/ ~Unforced(fourcc_value(args)))
    THEN NoFormat
    ELSE LET Test(f) == format_matches(f, args)
             matches == SelectSeq(formats, Test)
         IN IF matches = <<>> THEN NoFormat
            ELSE IF args.fps # 0
            THEN \* a stable sort, then the first element
                 LET best == CHOOSE i \in 1..Len(matches) :
                        /\ \A j \in 1..Len(matches) :
                              FpsDistance(matches[i], args) <= FpsDistance(matches[j], args)
                        /\ \A j \in 1..(i - 1) :
                              FpsDistance(matches[j], args) > FpsDistance(matches[i], args)
                 IN matches[best]
            ELSE matches[1]

\* PyGrabberCapture.__init__: the session object; self._fps is taken from the
\* request when a format was selected and fps was requested
PyGrabberCapture(formats, args) ==
    LET selected_format == choose_format(formats, args) IN
    [ref |-> "obj", opened |-> TRUE, backend |-> "pygrabber",
     width |-> 0, height |-> 0,
     fps |-> IF selected_format = NoFormat THEN 0
             ELSE IF args.fps # 0 THEN args.fps
             ELSE selected_format.max_framerate]

\* the mode a device runs in once video_input.set_format(index) was applied, or
\* its default mode (the first it advertises) when no format was forced
DeviceMode(fmt) == [index |-> fmt.index, width |-> fmt.width, height |-> fmt.height,
                    fps |-> fmt.max_framerate, encoding |-> fmt.media_type_str]

GrabberDeviceMode(formats, args) ==
    LET selected_format == choose_format(formats, args) IN
    DeviceMode(IF selected_format = NoFormat THEN formats[1] ELSE selected_format)

\* PyGrabberCapture.read, a pull that got a frame: the size is the frame's
GrabberRead(cap, dev) == [cap EXCEPT !.width = dev.width, !.height = dev.height]

\* cv2.VideoWriter_fourcc: the four characters packed lowest byte first
VideoWriter_fourcc(code) ==
    CASE code = "YUY2" -> 844715353
      [] code = "YUYV" -> 1448695129
      [] code = "MJPG" -> 1196444237

\* capture.get(...) of the four properties report_stream_state asks for; a
\* pollable handle answers from the device, the push-style one from its fields
get(cap, dev) ==
    IF cap.backend = "pygrabber"
    THEN [width |-> cap.width, height |-> cap.height, fps |-> cap.fps, fourcc |-> 0]
    ELSE [width |-> dev.width, height |-> dev.height, fps |-> dev.fps,
          fourcc |-> VideoWriter_fourcc(dev.encoding)]

\* describe_fourcc: code 0 prints as UNKNOWN, any other code as the four
\* characters of its bytes, lowest byte first
describe_fourcc(raw_code) ==
    CASE raw_code = 0 -> "UNKNOWN"
      [] raw_code = 844715353 -> "YUY2"
      [] raw_code = 1448695129 -> "YUYV"
      [] raw_code = 1196444237 -> "MJPG"

report_stream_state(cap, dev) ==
    LET state == get(cap, dev) IN
    [width |-> state.width, height |-> state.height, fps |-> state.fps,
     active_fourcc |-> describe_fourcc(state.fourcc)]

----------------------------------------------------------------------------
(* Two acquisitions of the same device that differ only in the requested fps *)

Format(i, w, h, lo, hi, enc) ==
    [index |-> i, width |-> w, height |-> h, min_framerate |-> lo,
     max_framerate |-> hi, media_type_str |-> enc]

DeviceFormats ==
    { <<Format(0, 640, 480, 10, 30, "YUY2")>>,
      <<Format(0, 640, 480, 10, 30, "YUY2"), Format(1, 1280, 720, 5, 15, "MJPG")>>,
      <<Format(0, 1280, 720, 5, 15, "MJPG"), Format(1, 640, 480, 10, 30, "YUY2")>> }

FpsRequests == {0, 15, 30, 45}

ReportConfigs ==
    { [backend |-> b, formats |-> fs, width |-> w, height |-> h, fourcc |-> f,
       fps |-> <<r1, r2>>] :
        b \in {"dshow", "pygrabber"}, fs \in DeviceFormats, w \in {0, 640},
        h \in {0, 480}, f \in {None, "YUYV", "MJPG"},
        r1 \in FpsRequests, r2 \in FpsRequests }

ReportArgs(k) == [width |-> cfg.width, height |-> cfg.height, fourcc |-> cfg.fourcc,
                  fps |-> cfg.fps[k]]

InitReport ==
    /\ cfg \in ReportConfigs
    /\ pc = "report_open"
    /\ capture = NoCapture
    /\ openHandles = 0
    /\ pending_frame = None
    /\ consecutive_failures = 0
    /\ reconnects = 0
    /\ active_backend_label = None
    /\ acq = StartAcq("report", <<cfg.backend>>)
    /\ display_ctx = [inits |-> 0, shutdowns |-> 0]
    /\ exit_code = NotReturned
    /\ hist = NoHist
    /\ device = None
    /\ reported = <<>>
    /\ resolution = None
    /\ selected = None
    /\ grab = None

reportFrame == <<resolution, selected, grab, consecutive_failures, reconnects, active_backend_label, display_ctx,
                 exit_code, hist, cfg>>

\* open_with_backends, pygrabber branch: PyGrabberCapture(device, args)
ReportOpenPygrabber ==
    /\ pc = "report_open"
    /\ cfg.backend = "pygrabber"
    /\ UNCHANGED <<reportFrame, reported, pending_frame>>
    /\ acq' = [acq EXCEPT !.idx = acq.idx + 1]
    /\ capture' = PyGrabberCapture(cfg.formats, ReportArgs(acq'.idx))
    /\ device' = GrabberDeviceMode(cfg.formats, ReportArgs(acq'.idx))
    /\ openHandles' = openHandles + 1
    /\ pc' = "report_pull"

\* acquire_capture: cv2.VideoCapture and configure_stream; the driver honours
\* the request as far as it likes and settles on one of its modes
ReportOpenPollable ==
    /\ pc = "report_open"
    /\ cfg.backend # "pygrabber"
    /\ UNCHANGED <<reportFrame, reported, pending_frame>>
    /\ acq' = [acq EXCEPT !.idx = acq.idx + 1]
    /\ capture' = VideoCapture(cfg.backend, TRUE)
    /\ \E i \in 1..Len(cfg.formats), rate \in {"min", "max"} :
         device' = [DeviceMode(cfg.formats[i]) EXCEPT
                      !.fps = IF rate = "min" THEN cfg.formats[i].min_framerate
                              ELSE cfg.formats[i].max_framerate]
    /\ openHandles' = openHandles + 1
    /\ pc' = "report_pull"

\* the validating pull (open_pygrabber_capture) or probe read (prime_capture)
ReportPull ==
    /\ pc = "report_pull"
    /\ UNCHANGED <<reportFrame, reported, device, acq>>
    /\ \E ok \in BOOLEAN :
         IF ok
         THEN /\ capture' = IF capture.backend = "pygrabber"
                            THEN GrabberRead(capture, device) ELSE capture
              /\ pending_frame' = "probe"
              /\ pc' = "report_state"
              /\ UNCHANGED openHandles
         ELSE /\ openHandles' = ReleasedCount(capture, openHandles)
              /\ capture' = Released(capture)
              /\ pending_frame' = None
              /\ pc' = IF acq.idx < Len(cfg.fps) THEN "report_open" ELSE "exit"

\* report_stream_state(capture); the session is then closed so that the next
\* acquisition finds the device free
ReportStreamState ==
    /\ pc = "report_state"
    /\ UNCHANGED <<reportFrame, device, acq>>
    /\ reported' = Append(reported, [device |-> device, fps |-> cfg.fps[acq.idx],
                                     printed |-> report_stream_state(capture, device)])
    /\ openHandles' = ReleasedCount(capture, openHandles)
    /\ capture' = Released(capture)
    /\ pending_frame' = None
    /\ pc' = IF acq.idx < Len(cfg.fps) THEN "report_open" ELSE "exit"

NextReport ==
    \/ ReportOpenPygrabber
    \/ ReportOpenPollable
    \/ ReportPull
    \/ ReportStreamState

SpecReport == InitReport /\ [][NextReport]_vars

\* C10: the reported width, height, fps and encoding are determined by the
\* opened handle's device state alone: two acquisitions that leave the device
\* in the same mode report the same values, whatever fps each requested.
C10_ReportIndependentOfRequest ==
    \A i, j \in DOMAIN reported :
        (reported[i].fps # 0 /\ reported[j].fps # 0
            /\ reported[i].device = reported[j].device)
            => reported[i].printed = reported[j].printed

----------------------------------------------------------------------------
(* Device resolution: microscope_devices.py.  Strings are sequences of
   characters, so that strip, isdigit, int, lower and `in` are computed. *)

Digits == <<"0", "1", "2", "3", "4", "5", "6", "7", "8", "9">>

\* str.isdigit(): non-empty and every character a digit
isdigit(s) == s # <<>> /\ \A i \in DOMAIN s : \E d \in DOMAIN Digits : Digits[d] = s[i]

RECURSIVE lstrip(_)
lstrip(s) == IF s # <<>> /\ Head(s) = " " THEN lstrip(Tail(s)) ELSE s

RECURSIVE rstrip(_)
rstrip(s) == IF s # <<>> /\ s[Len(s)] = " " THEN rstrip(SubSeq(s, 1, Len(s) - 1)) ELSE s

\* str.strip()
strip(s) == rstrip(lstrip(s))

\* int() of a digit string
RECURSIVE int(_)
int(s) ==
    IF s = <<>> THEN 0
    ELSE LET d == CHOOSE k \in DOMAIN Digits : Digits[k] = s[Len(s)]
         IN 10 * int(SubSeq(s, 1, Len(s) - 1)) + (d - 1)

lower_char(ch) ==
    CASE ch = "C" -> "c"
      [] ch = "D" -> "d"
      [] ch = "H" -> "h"
      [] ch = "I" -> "i"
      [] ch = "M" -> "m"
      [] ch = "O" -> "o"
      [] OTHER -> ch

\* str.lower()
str_lower(s) == [i \in DOMAIN s |-> lower_char(s[i])]

\* needle in hay
contains(needle, hay) ==
    \E k \in 0..(Len(hay) - Len(needle)) : SubSeq(hay, k + 1, k + Len(needle)) = needle

\* Path(path).name: the last component
PathName(path) ==
    LET slashes == {i \in DOMAIN path : path[i] = "/"}
    IN IF slashes = {} THEN path
       ELSE SubSeq(path, (CHOOSE i \in slashes : \A j \in slashes : j <= i) + 1, Len(path))

\* the None of _find_device_index
NoIndex == 0 - 1

\* _find_device_index: the first device whose name contains the name, 0-based
find_device_index(name, devices) ==
    LET hits == {i \in DOMAIN devices : contains(str_lower(name), str_lower(devices[i]))}
    IN IF hits = {} THEN NoIndex
       ELSE (CHOOSE i \in hits : \A j \in hits : i <= j) - 1

\* a device reference is an index or a string
IntRef(n) == [is_int |-> TRUE, index |-> n, path |-> <<>>]
StrRef(s) == [is_int |-> FALSE, index |-> 0, path |-> s]

\* --device: absent, or the text given
Absent == [given |-> FALSE, text |-> <<>>]
Token(t) == [given |-> TRUE, text |-> t]

Returned(ref, devices) == [raised |-> FALSE, device |-> ref, devices |-> devices, error |-> <<>>]
ValueError(message) == [raised |-> TRUE, device |-> IntRef(NoIndex), devices |-> <<>>, error |-> message]

\* resolve_device returning index 0 where it raises
resolve_device_DefaultsToZero(platform, device_arg, preferred_name, listing) ==
    IF platform = "win"
    THEN LET devices == IF listing.ok THEN listing.devices ELSE <<>>
             token == strip(device_arg.text)
         IN IF ~device_arg.given
            THEN LET idx == IF devices # <<>> THEN find_device_index(preferred_name, devices)
                            ELSE NoIndex
                 IN Returned(IntRef(IF idx # NoIndex THEN idx ELSE 0), devices)
            ELSE IF isdigit(token) THEN Returned(IntRef(int(token)), devices)
            ELSE IF devices # <<>> /\ find_device_index(token, devices) # NoIndex
            THEN Returned(IntRef(find_device_index(token, devices)), devices)
            ELSE Returned(IntRef(0), devices)
    ELSE LET devices == listing.devices
             named == {i \in DOMAIN devices :
                         contains(str_lower(preferred_name), str_lower(PathName(devices[i])))}
         IN IF device_arg.given /\ device_arg.text # <<>>
            THEN Returned(StrRef(device_arg.text), devices)
            ELSE IF named # {}
            THEN Returned(StrRef(devices[CHOOSE i \in named : \A j \in named : i <= j]), devices)
            ELSE IF devices # <<>> THEN Returned(StrRef(devices[1]), devices)
            ELSE Returned(IntRef(0), devices)

\* resolve_device taking the first entry without looking for the preferred name
resolve_device_IgnoresHint(platform, device_arg, preferred_name, listing) ==
    IF platform = "win"
    THEN LET devices == IF listing.ok THEN listing.devices ELSE <<>>
             list_error == IF listing.ok THEN <<>> ELSE listing.error
             token == strip(device_arg.text)
         IN IF ~device_arg.given
            THEN Returned(IntRef(0), devices)
            ELSE IF isdigit(token) THEN Returned(IntRef(int(token)), devices)
            ELSE IF devices # <<>> /\ find_device_index(token, devices) # NoIndex
            THEN Returned(IntRef(find_device_index(token, devices)), devices)
            ELSE ValueError(<<"Device '">> \o device_arg.text
                            \o <<"' was not found. Use --list-devices to see cameras.">>
                            \o (IF list_error # <<>> THEN <<"\n">> \o list_error ELSE <<>>))
    ELSE LET devices == listing.devices
             named == {i \in DOMAIN devices :
                         contains(str_lower(preferred_name), str_lower(PathName(devices[i])))}
         IN IF device_arg.given /\ device_arg.text # <<>>
            THEN Returned(StrRef(device_arg.text), devices)
            ELSE IF devices # <<>> THEN Returned(StrRef(devices[1]), devices)
            ELSE Returned(IntRef(0), devices)

\* listing is what _list_windows_devices / _list_v4l_devices did: a list, or
\* (Windows only) a RuntimeError with its text
resolve_device(platform, device_arg, preferred_name, listing) ==
    IF platform = "win"
    THEN LET devices == IF listing.ok THEN listing.devices ELSE <<>>
             list_error == IF listing.ok THEN <<>> ELSE listing.error
             token == strip(device_arg.text)
         IN IF ~device_arg.given
            THEN LET idx == IF devices # <<>> THEN find_device_index(preferred_name, devices)
                            ELSE NoIndex
                 IN Returned(IntRef(IF idx # NoIndex THEN idx ELSE 0), devices)
            ELSE IF isdigit(token) THEN Returned(IntRef(int(token)), devices)
            ELSE IF devices # <<>> /\ find_device_index(token, devices) # NoIndex
            THEN Returned(IntRef(find_device_index(token, devices)), devices)
            ELSE ValueError(<<"Device '">> \o device_arg.text
                            \o <<"' was not found. Use --list-devices to see cameras.">>
                            \o (IF list_error # <<>> THEN <<"\n">> \o list_error ELSE <<>>))
    ELSE LET devices == listing.devices
             named == {i \in DOMAIN devices :
                         contains(str_lower(preferred_name), str_lower(PathName(devices[i])))}
         IN IF device_arg.given /\ device_arg.text # <<>>
            THEN Returned(StrRef(device_arg.text), devices)
            ELSE IF named # {}
            THEN Returned(StrRef(devices[CHOOSE i \in named : \A j \in named : i <= j]), devices)
            ELSE IF devices # <<>> THEN Returned(StrRef(devices[1]), devices)
            ELSE Returned(IntRef(0), devices)

IntegratedCam == <<"I", "n", "t", "e", "g", "r", "a", "t", "e", "d", " ", "C", "a", "m">>
MikrOkularHD == <<"M", "i", "k", "r", "O", "k", "u", "l", "a", "r", "H", "D">>
MikroCam == <<"M", "i", "k", "r", "o", " ", "C", "a", "m">>
Video0 == <<"/", "d", "e", "v", "/", "v", "i", "d", "e", "o", "0">>
Video1 == <<"/", "d", "e", "v", "/", "v", "i", "d", "e", "o", "1">>

\* a video* node that udev named after the camera
VideoMikro == <<"/", "d", "e", "v", "/", "v", "i", "d", "e", "o", "_", "m", "i", "k", "r", "o", "k", "u", "l", "a", "r", "h", "d">>

\* str(exc) of the RuntimeError raised by _list_windows_devices
ListingError == <<"DirectShow device listing requires pygrabber. ",
                  "Install dependencies with 'pip install -r requirements.txt'.">>

Listed(devices) == [ok |-> TRUE, devices |-> devices, error |-> <<>>]

\* Windows lists DirectShow names in the graph's order; elsewhere the paths
\* come sorted
Listings(platform) ==
    IF platform = "win"
    THEN { [ok |-> FALSE, devices |-> <<>>, error |-> ListingError],
           Listed(<<>>), Listed(<<IntegratedCam>>),
           Listed(<<IntegratedCam, MikrOkularHD>>),
           Listed(<<MikroCam, MikrOkularHD>>),
           Listed(<<IntegratedCam, MikroCam, MikrOkularHD>>) }
    ELSE { Listed(<<>>), Listed(<<Video0>>), Listed(<<Video0, Video1>>),
           Listed(<<Video0, VideoMikro>>) }

DeviceArgs ==
    { Absent, Token(<<>>), Token(<<"0">>), Token(<<"1">>), Token(<<"1", "0">>),
      Token(<<" ", "1", " ">>), Token(<<"M", "i", "k", "r", "o">>), Token(<<"m", "i", "k", "r", "o">>),
      Token(<<"c", "a", "m">>), Token(<<"H", "D">>), Token(<<"s", "c", "o", "p", "e">>), Token(<<"v", "i", "d", "e", "o", "1">>),
      Token(Video1) }

ResolveConfigs ==
    { [platform |-> p, device_arg |-> a, listing |-> l] :
        p \in Platforms, a \in DeviceArgs, l \in UNION {Listings(q) : q \in Platforms} }

InitResolve ==
    /\ cfg \in {c \in ResolveConfigs : c.listing \in Listings(c.platform)}
    /\ pc = "resolve_device"
    /\ capture = NoCapture
    /\ openHandles = 0
    /\ pending_frame = None
    /\ consecutive_failures = 0
    /\ reconnects = 0
    /\ active_backend_label = None
    /\ acq = StartAcq("initial", <<"any">>)
    /\ display_ctx = [inits |-> 0, shutdowns |-> 0]
    /\ exit_code = NotReturned
    /\ hist = NoHist
    /\ device = None
    /\ reported = <<>>
    /\ resolution = None
    /\ selected = None
    /\ grab = None

resolveFrame == <<cfg, reported, selected, grab, pending_frame, consecutive_failures,
                  reconnects, active_backend_label, acq, display_ctx, hist, device>>

\* main: device, devices = resolve_device(args.device, "MikrOkularHD"); a
\* ValueError is printed and main returns 2
ResolveDevice ==
    /\ pc = "resolve_device"
    /\ UNCHANGED <<resolveFrame, capture, openHandles>>
    /\ resolution' = resolve_device(cfg.platform, cfg.device_arg, MikrOkularHD, cfg.listing)
    /\ IF resolution'.raised
       THEN exit_code' = 2 /\ pc' = "exit"
       ELSE UNCHANGED exit_code /\ pc' = "acquire_capture"

\* the first cv2.VideoCapture(device, backend) of the acquisition
ResolveAcquire ==
    /\ pc = "acquire_capture"
    /\ UNCHANGED <<resolveFrame, resolution, exit_code>>
    /\ \E isOpen \in BOOLEAN :
         /\ capture' = VideoCapture("any", isOpen)
         /\ openHandles' = IF isOpen THEN openHandles + 1 ELSE openHandles
    /\ pc' = "acquired"

NextResolve ==
    \/ ResolveDevice
    \/ ResolveAcquire

SpecResolve == InitResolve /\ [][NextResolve]_vars

Resolved == pc # "resolve_device"

\* C13: a token that is a plain non-negative integer literal resolves, on
\* every platform, to that integer, whatever was enumerated and whether or
\* not enumeration succeeded.
C13_IntegerTokenYieldsIndex ==
    (Resolved /\ cfg.device_arg.given /\ isdigit(cfg.device_arg.text)) =>
        /\ ~resolution.raised
        /\ resolution.device = IntRef(int(cfg.device_arg.text))

\* C14: a non-numeric token resolves, on every platform, to the index of the
\* first enumerated device whose name contains it, case-insensitively.
C14_NameTokenYieldsFirstMatch ==
    (/\ Resolved
     /\ cfg.device_arg.given
     /\ cfg.device_arg.text # <<>>
     /\ ~isdigit(strip(cfg.device_arg.text))
     /\ find_device_index(cfg.device_arg.text, cfg.listing.devices) # NoIndex) =>
        /\ ~resolution.raised
        /\ resolution.device
              = IntRef(find_device_index(cfg.device_arg.text, cfg.listing.devices))

\* C15: on Windows a non-numeric token that matches no enumerated device, or
\* whose enumeration failed, raises the not-found error carrying the token
\* and the enumeration error if there was one; no device reference comes
\* back, main returns 2 and no capture handle was ever opened.
C15_DeviceNotFoundOnWindows ==
    (/\ Resolved
     /\ cfg.platform = "win"
     /\ cfg.device_arg.given
     /\ ~isdigit(strip(cfg.device_arg.text))
     /\ \/ ~cfg.listing.ok
        \/ find_device_index(strip(cfg.device_arg.text), cfg.listing.devices) = NoIndex) =>
        /\ resolution.raised
        /\ resolution.device = IntRef(NoIndex)
        /\ contains(<<"Device '">> \o cfg.device_arg.text \o <<"' was not found. Use --list-devices to see cameras.">>,
                    resolution.error)
        /\ ~cfg.listing.ok => contains(cfg.listing.error, resolution.error)
        /\ pc = "exit" /\ exit_code = 2
        /\ openHandles = 0 /\ capture = NoCapture

C15_Witness ==
    /\ pc = "exit" /\ exit_code = 2
    /\ cfg.device_arg = Token(<<"M", "i", "k", "r", "o">>)
    /\ ~cfg.listing.ok
    /\ contains(ListingError, resolution.error)

\* C24: without a token resolve_device never raises, on either platform and
\* whether or not enumeration worked: it returns the first enumerated entry
\* containing the preferred name (case-insensitively), else the first
\* entry, else index 0; an entry is its index on Windows and its path
\* elsewhere.
C24_AbsentTokenDefaults ==
    (Resolved /\ ~cfg.device_arg.given) =>
        LET devices == IF cfg.listing.ok THEN cfg.listing.devices ELSE <<>>
            hits == {i \in DOMAIN devices :
                       contains(str_lower(MikrOkularHD), str_lower(devices[i]))}
            pick == IF hits # {} THEN CHOOSE i \in hits : \A j \in hits : i <= j
                    ELSE IF devices # <<>> THEN 1 ELSE 0
        IN /\ ~resolution.raised
           /\ exit_code = NotReturned
           /\ resolution.device =
                 IF pick = 0 THEN IntRef(0)
                 ELSE IF cfg.platform = "win" THEN IntRef(pick - 1)
                 ELSE StrRef(devices[pick])

\* the preferred camera is the second entry, on Windows and elsewhere
C24_Witness ==
    /\ Resolved /\ ~cfg.device_arg.given
    /\ Len(cfg.listing.devices) >= 2
    /\ \/ cfg.platform = "win" /\ resolution.device = IntRef(1)
       \/ cfg.platform = "linux" /\ resolution.device = StrRef(VideoMikro)

----------------------------------------------------------------------------
(* The format matcher on its own: _format_matches on every descriptor of a
   list, then _choose_format on the list *)

\* --fourcc as typed, None when the flag is absent
EncodingTokens ==
    { None, "", " ", "auto", "AUTO", "Auto", " auto ", "default", "Default",
      "none", "NONE", "YUYV", "yuyv", " YUYV", "YUY2", "yuy2", "MJPG" }

FormatLists ==
    { <<>>,
      <<Format(0, 640, 480, 10, 30, "YUY2")>>,
      <<Format(0, 640, 480, 10, 30, "YUYV")>>,
      <<Format(0, 640, 480, 10, 30, "MJPG"), Format(1, 640, 480, 10, 30, "YUY2")>>,
      <<Format(0, 640, 480, 10, 30, "YUY2"), Format(1, 640, 480, 40, 60, "YUY2")>>,
      <<Format(0, 1280, 720, 5, 15, "MJPG"), Format(1, 640, 480, 10, 30, "YUYV"),
        Format(2, 640, 480, 15, 50, "YUY2")>> }

FormatRequests ==
    [width : {0, 640}, height : {0, 480}, fps : FpsRequests, fourcc : EncodingTokens]

InitFormat ==
    /\ cfg \in [formats : FormatLists, args : FormatRequests]
    /\ pc = "format_matches"
    /\ capture = NoCapture
    /\ openHandles = 0
    /\ pending_frame = None
    /\ consecutive_failures = 0
    /\ reconnects = 0
    /\ active_backend_label = None
    /\ acq = StartAcq("initial", <<"pygrabber">>)
    /\ display_ctx = [inits |-> 0, shutdowns |-> 0]
    /\ exit_code = NotReturned
    /\ hist = NoHist
    /\ device = None
    /\ reported = <<>>
    /\ resolution = None
    /\ selected = [matched |-> <<>>, format |-> NoFormat]
    /\ grab = None

formatFrame == <<cfg, reported, resolution, grab, pending_frame, consecutive_failures,
                 reconnects, active_backend_label, acq, display_ctx, hist, device,
                 capture, openHandles, exit_code>>

\* _format_matches(fmt, args) for every descriptor of the list
FormatMatches ==
    /\ pc = "format_matches"
    /\ UNCHANGED formatFrame
    /\ selected' = [selected EXCEPT
                      !.matched = [i \in DOMAIN cfg.formats |->
                                     format_matches(cfg.formats[i], cfg.args)]]
    /\ pc' = "choose_format"

\* _choose_format(formats, args)
ChooseFormat ==
    /\ pc = "choose_format"
    /\ UNCHANGED formatFrame
    /\ selected' = [selected EXCEPT !.format = choose_format(cfg.formats, cfg.args)]
    /\ pc' = "chosen"

NextFormat ==
    \/ FormatMatches
    \/ ChooseFormat

SpecFormat == InitFormat /\ [][NextFormat]_vars

\* the pixel encodings that count as not set: absent, empty, or one of
\* auto / default / none in any case
UnsetEncodings ==
    {None, "", "auto", "AUTO", "Auto", "default", "Default", "none", "NONE"}

\* C16: whatever descriptors are available, a request that sets none of
\* width, height, fps and pixel encoding gets no format (None).
C16_UnconstrainedRequestSelectsNothing ==
    (/\ pc = "chosen"
     /\ cfg.args.width = 0 /\ cfg.args.height = 0 /\ cfg.args.fps = 0
     /\ cfg.args.fourcc \in UnsetEncodings) => selected.format = NoFormat

C16_Witness ==
    /\ pc = "chosen"
    /\ cfg.args = [width |-> 0, height |-> 0, fps |-> 0, fourcc |-> "Default"]
    /\ Len(cfg.formats) = 3
    /\ selected.format = NoFormat

\* C17: with only the pixel encoding requested, a descriptor matches exactly
\* when its encoding is the requested code, YUYV and YUY2 counting as the
\* same code in both directions.
C17_YuyvYuy2Synonymous ==
    (/\ pc # "format_matches"
     /\ cfg.args.width = 0 /\ cfg.args.height = 0 /\ cfg.args.fps = 0
     /\ cfg.args.fourcc \in {"YUYV", "yuyv", "YUY2", "yuy2", "MJPG"}) =>
        LET SameEncoding(a, b) ==
                a = b \/ (a \in {"YUYV", "YUY2"} /\ b \in {"YUYV", "YUY2"})
        IN \A i \in DOMAIN cfg.formats :
              selected.matched[i]
                 <=> SameEncoding(upper(cfg.args.fourcc), cfg.formats[i].media_type_str)

\* C18: for a request that sets something, the descriptor returned is taken
\* from those satisfying the constraints other than fps: with fps requested
\* the first of them at minimal distance between the requested fps and its
\* clamp to the descriptor's range, without fps the first of them; None only
\* when there is none of them.
C18_ClosestFpsRangeSelected ==
    (/\ pc = "chosen"
     /\ \/ cfg.args.width # 0 \/ cfg.args.height # 0 \/ cfg.args.fps # 0
        \/ cfg.args.fourcc \notin UnsetEncodings \cup {" ", " auto "}) =>
        LET Others(f) == format_matches(f, [cfg.args EXCEPT !.fps = 0])
            cands == SelectSeq(cfg.formats, Others)
            Closest(i) == \A j \in DOMAIN cands :
                             FpsDistance(cands[i], cfg.args) <= FpsDistance(cands[j], cfg.args)
        IN IF cands = <<>> THEN selected.format = NoFormat
           ELSE IF cfg.args.fps = 0 THEN selected.format = cands[1]
           ELSE \E i \in DOMAIN cands :
                   /\ Closest(i)
                   /\ \A j \in 1..(i - 1) : ~Closest(j)
                   /\ selected.format = cands[i]

\* C26: when fps is requested and a descriptor is returned, the requested
\* fps lies inside the descriptor's [min, max] range and the descriptor is
\* the first one of the list that _format_matches accepts; a descriptor
\* whose range misses the requested fps is never returned.
C26_ReturnedFormatContainsFps ==
    (pc = "chosen" /\ cfg.args.fps # 0 /\ selected.format # NoFormat) =>
        /\ selected.format.min_framerate <= cfg.args.fps
        /\ cfg.args.fps <= selected.format.max_framerate
        /\ \E i \in DOMAIN cfg.formats :
              /\ selected.matched[i]
              /\ \A j \in 1..(i - 1) : ~selected.matched[j]
              /\ selected.format = cfg.formats[i]

\* fps 45 passes over the nearer-listed [10, 30] descriptor for [40, 60]
C26_Witness ==
    /\ pc = "chosen" /\ cfg.args.fps = 45
    /\ Len(cfg.formats) = 2 /\ cfg.formats[1].max_framerate = 30
    /\ selected.matched = <<FALSE, TRUE>>
    /\ selected.format = cfg.formats[2]

----------------------------------------------------------------------------
(* The push-style session: PyGrabberCapture.read line by line, against the
   sample-grabber callback that the capture graph runs on its own thread.
   grab_frame() arms the grabber; the next sample then reaches _on_frame. *)

MaxReads == 4

\* self._frame is None / no grab request armed
NoFrame == 0

NoResult == [ok |-> FALSE, frame |-> NoFrame]

NoSession ==
    [opened |-> FALSE, running |-> FALSE, frame_ready |-> FALSE, frame |-> NoFrame,
     armed |-> NoFrame, reads |-> 0, caller |-> "open", result |-> NoResult,
     returned |-> FALSE, timeouts |-> 0, okAfterTimeout |-> FALSE]

InitGrabber ==
    /\ cfg \in [platform : Platforms]
    /\ pc = "open_pygrabber_capture"
    /\ capture = NoCapture
    /\ openHandles = 0
    /\ pending_frame = None
    /\ consecutive_failures = 0
    /\ reconnects = 0
    /\ active_backend_label = None
    /\ acq = StartAcq("initial", <<"pygrabber">>)
    /\ display_ctx = [inits |-> 0, shutdowns |-> 0]
    /\ exit_code = NotReturned
    /\ hist = NoHist
    /\ device = None
    /\ reported = <<>>
    /\ resolution = None
    /\ selected = None
    /\ grab = NoSession

grabberFrame == <<cfg, reported, resolution, selected, pending_frame, consecutive_failures,
                  reconnects, active_backend_label, acq, display_ctx, hist, device,
                  capture, openHandles, exit_code>>

\* read() hands its result back: to open_pygrabber_capture for the validating
\* pull, to the streaming caller afterwards
ReadReturns(g, ok, frame) ==
    [g EXCEPT !.result = [ok |-> ok, frame |-> frame],
              !.returned = TRUE,
              !.timeouts = IF ok THEN @ ELSE Sat(@, MaxReads),
              !.okAfterTimeout = @ \/ (ok /\ g.timeouts > 0)]

ReturnPoint(g) == IF g.caller = "open" THEN "validate" ELSE "stream"

\* PyGrabberCapture.release()
release(g) ==
    IF ~g.opened THEN g
    ELSE [g EXCEPT !.opened = FALSE, !.running = FALSE]

\* open_pygrabber_capture: the platform test and PyGrabberCapture(...), which
\* builds and runs the graph or raises
GrabberOpen ==
    /\ pc = "open_pygrabber_capture"
    /\ UNCHANGED grabberFrame
    /\ IF cfg.platform # "win"
       THEN pc' = "exit" /\ UNCHANGED grab
       ELSE \E constructed \in BOOLEAN :
              IF constructed
              THEN /\ grab' = [grab EXCEPT !.opened = TRUE, !.running = TRUE]
                   /\ pc' = "read"
              ELSE pc' = "exit" /\ UNCHANGED grab

\* read: the _opened test and self._frame_ready.clear()
GrabberReadClearEvent ==
    /\ pc = "read"
    /\ UNCHANGED grabberFrame
    /\ IF ~grab.opened
       THEN /\ grab' = ReadReturns([grab EXCEPT !.reads = @ + 1], FALSE, NoFrame)
            /\ pc' = ReturnPoint(grab)
       ELSE /\ grab' = [grab EXCEPT !.reads = @ + 1, !.frame_ready = FALSE,
                                    !.returned = FALSE]
            /\ pc' = "read_clear_frame"

\* read: self._frame = None
GrabberReadClearFrame ==
    /\ pc = "read_clear_frame"
    /\ UNCHANGED grabberFrame
    /\ grab' = [grab EXCEPT !.frame = NoFrame]
    /\ pc' = "read_grab_frame"

\* read: self._graph.grab_frame() arms the sample grabber for this pull
GrabberReadGrabFrame ==
    /\ pc = "read_grab_frame"
    /\ UNCHANGED grabberFrame
    /\ grab' = [grab EXCEPT !.armed = grab.reads]
    /\ pc' = "read_wait"

\* a read whose timed-out wait tears the session down
GrabberReadWait_ReleasesOnTimeout ==
    /\ pc = "read_wait"
    /\ UNCHANGED grabberFrame
    /\ IF grab.frame_ready
       THEN pc' = "read_check_frame" /\ UNCHANGED grab
       ELSE /\ grab' = release(ReadReturns(grab, FALSE, NoFrame))
            /\ pc' = ReturnPoint(grab)

\* read: self._frame_ready.wait(timeout); the wait returns at once when the
\* event is set and gives up after the timeout when it is not
GrabberReadWait ==
    /\ pc = "read_wait"
    /\ UNCHANGED grabberFrame
    /\ IF grab.frame_ready
       THEN pc' = "read_check_frame" /\ UNCHANGED grab
       ELSE /\ grab' = ReadReturns(grab, FALSE, NoFrame)
            /\ pc' = ReturnPoint(grab)

\* read: if self._frame is None: return False, None
GrabberReadCheckFrame ==
    /\ pc = "read_check_frame"
    /\ UNCHANGED grabberFrame
    /\ IF grab.frame = NoFrame
       THEN grab' = ReadReturns(grab, FALSE, NoFrame) /\ pc' = ReturnPoint(grab)
       ELSE pc' = "read_convert" /\ UNCHANGED grab

\* read: cv2.cvtColor(self._frame, ...) and return True, frame
GrabberReadConvert ==
    /\ pc = "read_convert"
    /\ UNCHANGED grabberFrame
    /\ grab' = ReadReturns(grab, TRUE, grab.frame)
    /\ pc' = ReturnPoint(grab)

\* _on_frame, called by the graph's thread for the sample after a grab
\* request: self._frame = frame; self._frame_ready.set()
OnFrame ==
    /\ grab.running
    /\ grab.armed # NoFrame
    /\ UNCHANGED <<grabberFrame, pc>>
    /\ grab' = [grab EXCEPT !.frame = grab.armed, !.frame_ready = TRUE,
                            !.armed = NoFrame]

\* open_pygrabber_capture: ok, frame = capture.read(); release if not ok
GrabberValidate ==
    /\ pc = "validate"
    /\ UNCHANGED grabberFrame
    /\ IF ~grab.result.ok
       THEN grab' = release(grab) /\ pc' = "exit"
       ELSE grab' = [grab EXCEPT !.caller = "stream"] /\ pc' = "stream"

\* the caller's loop: another capture.read()
GrabberNextRead ==
    /\ pc = "stream"
    /\ grab.reads < MaxReads
    /\ UNCHANGED <<grabberFrame, grab>>
    /\ pc' = "read"

\* the caller is done with the session: capture.release()
GrabberRelease ==
    /\ pc = "stream"
    /\ UNCHANGED grabberFrame
    /\ grab' = release(grab)
    /\ pc' = "exit"

NextGrabber ==
    \/ GrabberOpen
    \/ GrabberReadClearEvent
    \/ GrabberReadClearFrame
    \/ GrabberReadGrabFrame
    \/ GrabberReadWait
    \/ GrabberReadCheckFrame
    \/ GrabberReadConvert
    \/ OnFrame
    \/ GrabberValidate
    \/ GrabberNextRead
    \/ GrabberRelease

SpecGrabber == InitGrabber /\ [][NextGrabber]_vars

\* C20: a read whose wait times out returns (False, None) and leaves the
\* session open with its graph running; an open session is closed only by
\* open_pygrabber_capture after a failed validating pull or by the caller's
\* own release, never by a read.
C20_TimeoutKeepsSessionOpen ==
    [][ /\ (pc = "read_wait" /\ pc' # "read_wait" /\ ~grab.frame_ready) =>
             /\ grab'.result = NoResult
             /\ grab'.returned
             /\ grab'.opened /\ grab'.running
             /\ grab.caller = "stream" => pc' = "stream"
        /\ (grab.opened /\ ~grab'.opened) =>
             \/ pc = "validate" /\ ~grab.result.ok
             \/ pc = "stream" /\ pc' = "exit"
        /\ (grab.running /\ ~grab'.running) => ~grab'.opened ]_vars

\* a read succeeded on a session on which an earlier read had timed out
C20_Witness ==
    /\ grab.okAfterTimeout
    /\ grab.caller = "stream"
    /\ grab.opened /\ grab.running
    /\ grab.result.ok /\ grab.timeouts > 0

\* C25: however the callback interleaves with read, a read that returns
\* success returns a frame, and that frame was delivered for the grab
\* request of this very read, not for the request of an earlier one.
C25_SuccessfulReadReturnsOwnFrame ==
    (grab.returned /\ grab.result.ok) =>
        /\ grab.result.frame # NoFrame
        /\ grab.result.frame = grab.reads

====
